---- MODULE Spec2Model ----
(***************************************************************************)
(* A state-machine model of two parts of the plotting toolkit:             *)
(*                                                                         *)
(*   - BetterZoom (chaco/tools/better_zoom.py): the zoom tool with its     *)
(*     bounded zoom factors and its undo/redo history;                     *)
(*   - DataRange2D (enthought/chaco2/data_range_2d.py): the rectangular    *)
(*     range built from two 1-D ranges.                                    *)
(*                                                                         *)
(* Python floats are modelled as exact rationals <<n, d>> in lowest terms  *)
(* with d > 0, so that multiplying and dividing by a zoom factor are       *)
(* computed, never assumed to cancel.                                      *)
(***************************************************************************)
EXTENDS Integers, Sequences, FiniteSets, TLC

(***************************************************************************)
(* Bounds of the model.                                                    *)
(***************************************************************************)
\* Number of state-growing operations (accepted zooms and history resets)
\* explored in one behaviour; undo, redo, refused zooms and trait changes
\* are not counted.
MaxSteps == 2

(***************************************************************************)
(* Rational arithmetic.                                                    *)
(***************************************************************************)
Abs(n) == IF n < 0 THEN -n ELSE n

RECURSIVE GCD(_, _)
GCD(a, b) == IF b = 0 THEN a ELSE GCD(b, a % b)

R(n, d) ==
    LET g == GCD(Abs(n), Abs(d))
        s == IF d < 0 THEN -1 ELSE 1
    IN  <<(s * n) \div g, (s * d) \div g>>

RAdd(a, b) == R(a[1] * b[2] + b[1] * a[2], a[2] * b[2])
RSub(a, b) == R(a[1] * b[2] - b[1] * a[2], a[2] * b[2])
RMul(a, b) == R(a[1] * b[1], a[2] * b[2])
RDiv(a, b) == R(a[1] * b[2], a[2] * b[1])
RLe(a, b)  == a[1] * b[2] <= b[1] * a[2]
RLt(a, b)  == a[1] * b[2] < b[1] * a[2]
One  == <<1, 1>>
Two  == <<2, 1>>
Zero == <<0, 1>>

(***************************************************************************)
(* BetterZoom: traits.                                                     *)
(***************************************************************************)
VARIABLES
    index_factor,    \* BetterZoom._index_factor
    value_factor,    \* BetterZoom._value_factor
    index_range,     \* component.index_mapper.range: [low, high]
    value_range,     \* component.value_mapper.range: [low, high]
    history,         \* ToolHistoryMixin._history
    history_index,   \* ToolHistoryMixin._history_index
    position,        \* BetterZoom.position: the last mouse position
    zoom_to_mouse,   \* BetterZoom.zoom_to_mouse
    axis,            \* BetterZoom.axis
    orientation,     \* component.orientation
    enable_wheel,    \* BetterZoom.enable_wheel
    handled,         \* event.handled after the step, FALSE when the step
                     \* handled no event
    steps,           \* accepted zooms and resets performed so far
    lastOp,          \* the last operation that took effect (an accepted zoom,
                     \* an undo, a redo or a reset)
    pre              \* factors and ranges before that operation

zoomVars == <<index_factor, value_factor, index_range, value_range, history,
              history_index, position, zoom_to_mouse, axis, orientation,
              enable_wheel, handled, steps, lastOp, pre>>

(***************************************************************************)
(* DataRange2D: traits.                                                    *)
(***************************************************************************)
VARIABLES
    xrange,          \* DataRange2D._xrange: the DataRange1D of the x dimension
    yrange,          \* DataRange2D._yrange: the DataRange1D of the y dimension
    own_low,         \* DataRange2D._low_setting (the private trait)
    own_high,        \* DataRange2D._high_setting (the private trait)
    sources,         \* DataRange2D.sources
    seen,            \* the bounds read by a listener of the 1-D ranges' updated
                     \* events, one entry per event of the last operation
    rop,             \* the last operation on the range
    rpre,            \* bounds and settings before that operation
    subscribed,      \* the sources whose data_changed event calls self.refresh
    outcome          \* what the last operation on the range did

rangeVars == <<xrange, yrange, own_low, own_high, sources, seen, rop, rpre,
               subscribed, outcome>>

(***************************************************************************)
(* A call of mask_data or clip_data, and the DataLabel overlay.            *)
(***************************************************************************)
VARIABLES
    data,            \* the array of points passed to mask_data / clip_data
    result,          \* what the call returned
    dop,             \* the method called: "mask", "clip" or "none"
    label,           \* the traits of a DataLabel
    lop              \* what the last operation on the label did

clipVars == <<data, result, dop>>

labelVars == <<label, lop>>

vars == <<zoomVars, rangeVars, clipVars, labelVars>>

\* The zoom limits the tool is configured with (Float traits).
x_max_zoom_factor == <<4, 1>>
y_max_zoom_factor == <<6, 1>>
x_min_zoom_factor == <<1, 4>>
y_min_zoom_factor == <<1, 3>>

\* zoom_factor = Float(2.0)
zoom_factor == Two

\* The factors a caller passes to the zoom methods; 0 selects zoom_factor.
Factors == {Zero, <<3, 1>>}

\* The factors passed while the tool zooms to the mouse position.
MouseFactors == {<<3, 1>>}

\* component.bounds: the size of the component on the screen.
Bounds == <<4, 4>>

\* Mouse positions delivered by mouse-move events.
Positions == {<<2, 2>>, <<1, 3>>}

\* _history = List(ToolState, [ZoomState((1.0, 1.0), (1.0, 1.0))])
ZoomState(prev, next) ==
    [pan |-> FALSE, pprev |-> <<Zero, Zero>>, pnext |-> <<Zero, Zero>>,
     zprev |-> prev, znext |-> next]

\* GroupedToolState([PanState(pprev, pnext), ZoomState(prev, next)])
GroupedToolState(pprev, pnext, prev, next) ==
    [pan |-> TRUE, pprev |-> pprev, pnext |-> pnext,
     zprev |-> prev, znext |-> next]

InitialHistory == <<ZoomState(<<One, One>>, <<One, One>>)>>

\* The part of the tool and its component a tool state acts on.
View(fi, fv, ir, vr) == [fi |-> fi, fv |-> fv, ir |-> ir, vr |-> vr]
Cur == View(index_factor, value_factor, index_range, value_range)

NoOp == [op |-> "none", via |-> "none"]

(***************************************************************************)
(* BetterZoom: private helpers.                                            *)
(***************************************************************************)
\* def _center_screen(self)
center_screen == <<Bounds[1] \div 2, Bounds[2] \div 2>>

\* Mutant of _zoom_limit_reached: the x factor is held against the y limits
\* and the y factor against the x limits.
zoom_limit_reached_swapped(factor, xy_axis) ==
    IF xy_axis = "x"
    THEN ~(RLe(factor, y_max_zoom_factor) /\ RLe(y_min_zoom_factor, factor))
    ELSE ~(RLe(factor, x_max_zoom_factor) /\ RLe(x_min_zoom_factor, factor))

\* def _zoom_limit_reached(self, factor, xy_axis)
zoom_limit_reached(factor, xy_axis) ==
    IF xy_axis = "x"
    THEN IF RLe(factor, x_max_zoom_factor) /\ RLe(x_min_zoom_factor, factor)
         THEN FALSE ELSE TRUE
    ELSE IF RLe(factor, y_max_zoom_factor) /\ RLe(y_min_zoom_factor, factor)
         THEN FALSE ELSE TRUE

\* Mutant of _zoom_in_mapper: the halves are forgotten, so the new bounds
\* lie a whole new width on either side of the centre.
zoom_in_mapper_no_halving(rng, factor) ==
    LET high      == rng.high
        low       == rng.low
        range     == RSub(high, low)
        center    == RDiv(RAdd(low, high), Two)
        new_range == RDiv(range, factor)
    IN  [low  |-> RSub(center, new_range),
         high |-> RAdd(center, new_range)]

\* def _zoom_in_mapper(self, mapper, factor): the mapper's new range
zoom_in_mapper(rng, factor) ==
    LET high      == rng.high
        low       == rng.low
        range     == RSub(high, low)
        center    == RDiv(RAdd(low, high), Two)
        new_range == RDiv(range, factor)
    IN  [low  |-> RSub(center, RDiv(new_range, Two)),
         high |-> RAdd(center, RDiv(new_range, Two))]

\* def _get_x_mapper(self): the range of the mapper on the screen x axis
get_x_mapper(v) == IF orientation = "h" THEN v.ir ELSE v.vr

\* def _get_y_mapper(self): the range of the mapper on the screen y axis
get_y_mapper(v) == IF orientation = "h" THEN v.vr ELSE v.ir

\* LinearMapper.map_data(screen_val) of a mapper laid out over [0, extent]
map_data(rng, screen_val, extent) ==
    RAdd(rng.low,
         RMul(RDiv(<<screen_val, 1>>, <<extent, 1>>), RSub(rng.high, rng.low)))

(***************************************************************************)
(* tool_states: ZoomState, PanState and GroupedToolState.                  *)
(***************************************************************************)
\* A range of the same width centred on c (PanState.apply / revert).
Recentre(rng, c) ==
    LET range == RSub(rng.high, rng.low)
    IN  [low  |-> RSub(c, RDiv(range, Two)),
         high |-> RAdd(c, RDiv(range, Two))]

\* PanState.apply(tool)
PanApply(st, v) ==
    [v EXCEPT
       !.ir = IF st.pnext[1] # st.pprev[1] THEN Recentre(v.ir, st.pnext[1]) ELSE @,
       !.vr = IF st.pnext[2] # st.pprev[2] THEN Recentre(v.vr, st.pnext[2]) ELSE @]

\* PanState.revert(tool)
PanRevert(st, v) ==
    [v EXCEPT
       !.ir = IF st.pnext[1] # st.pprev[1] THEN Recentre(v.ir, st.pprev[1]) ELSE @,
       !.vr = IF st.pnext[2] # st.pprev[2] THEN Recentre(v.vr, st.pprev[2]) ELSE @]

\* ZoomState.apply(tool)
ZoomApply(st, v) ==
    LET i_factor == RDiv(st.znext[1], st.zprev[1])
        v_factor == RDiv(st.znext[2], st.zprev[2])
    IN  [fi |-> st.znext[1],
         fv |-> st.znext[2],
         ir |-> IF i_factor # One THEN zoom_in_mapper(v.ir, i_factor) ELSE v.ir,
         vr |-> IF v_factor # One THEN zoom_in_mapper(v.vr, v_factor) ELSE v.vr]

\* ZoomState.revert(tool)
ZoomRevert(st, v) ==
    [fi |-> st.zprev[1],
     fv |-> st.zprev[2],
     ir |-> zoom_in_mapper(v.ir, RDiv(st.zprev[1], st.znext[1])),
     vr |-> zoom_in_mapper(v.vr, RDiv(st.zprev[2], st.znext[2]))]

\* state.apply(tool): a ZoomState, or a GroupedToolState applying the pan
\* and then the zoom
StateApply(st, v) ==
    IF st.pan THEN ZoomApply(st, PanApply(st, v)) ELSE ZoomApply(st, v)

\* state.revert(tool): a GroupedToolState reverts its states in reverse order
StateRevert(st, v) ==
    IF st.pan THEN PanRevert(st, ZoomRevert(st, v)) ELSE ZoomRevert(st, v)

(***************************************************************************)
(* ToolHistoryMixin.                                                       *)
(***************************************************************************)
\* def _append_state(self, state): [new history, new index]
append_state(hist, idx, st) ==
    LET keep == IF idx + 1 < Len(hist) THEN idx + 1 ELSE Len(hist)
        new_history == Append(SubSeq(hist, 1, keep), st)
    IN  [history |-> new_history, index |-> Len(new_history) - 1]

\* def _current_state(self)
current_state(hist, idx) == hist[idx + 1]

(***************************************************************************)
(* BetterZoom: the public zoom methods.  Each request is the pair of new   *)
(* factors the method computes and the outcome of its limit checks.        *)
(***************************************************************************)
\* if factor == 0: factor = self.zoom_factor
effective(f) == IF f = Zero THEN zoom_factor ELSE f

Request(nif, nvf, limit) == [new |-> <<nif, nvf>>, limit |-> limit]

\* zoom_in / zoom_out: the limit checks on both mappers
both_limit_reached(nif, nvf) ==
    IF orientation = "h"
    THEN zoom_limit_reached(nif, "x") \/ zoom_limit_reached(nvf, "y")
    ELSE zoom_limit_reached(nif, "y") \/ zoom_limit_reached(nvf, "x")

\* def zoom_in(self, factor=0), up to the limit checks
zoom_in_request(f) ==
    LET factor == effective(f)
        nif == IF axis = "value" THEN index_factor
               ELSE RMul(index_factor, factor)
        nvf == IF axis = "index" THEN value_factor
               ELSE RMul(value_factor, factor)
    IN  Request(nif, nvf, both_limit_reached(nif, nvf))

\* Mutant of zoom_out: the factors are multiplied, as in zoom_in.
zoom_out_request_multiplying(f) ==
    LET factor == effective(f)
        nif == IF axis = "value" THEN index_factor
               ELSE RMul(index_factor, factor)
        nvf == IF axis = "index" THEN value_factor
               ELSE RMul(value_factor, factor)
    IN  Request(nif, nvf, both_limit_reached(nif, nvf))

\* def zoom_out(self, factor=0), up to the limit checks
zoom_out_request(f) ==
    LET factor == effective(f)
        nif == IF axis = "value" THEN index_factor
               ELSE RDiv(index_factor, factor)
        nvf == IF axis = "index" THEN value_factor
               ELSE RDiv(value_factor, factor)
    IN  Request(nif, nvf, both_limit_reached(nif, nvf))

\* def zoom_in_x(self, factor=0), up to the limit check
zoom_in_x_request(f) ==
    LET factor == effective(f)
    IN  IF orientation = "h"
        THEN LET nif == RMul(index_factor, factor)
             IN  Request(nif, value_factor, zoom_limit_reached(nif, "x"))
        ELSE LET nvf == RMul(value_factor, factor)
             IN  Request(index_factor, nvf, zoom_limit_reached(nvf, "x"))

\* def zoom_out_x(self, factor=0), up to the limit check
zoom_out_x_request(f) ==
    LET factor == effective(f)
    IN  IF orientation = "h"
        THEN LET nif == RDiv(index_factor, factor)
             IN  Request(nif, value_factor, zoom_limit_reached(nif, "x"))
        ELSE LET nvf == RDiv(value_factor, factor)
             IN  Request(index_factor, nvf, zoom_limit_reached(nvf, "x"))

\* def zoom_in_y(self, factor=0), up to the limit check
zoom_in_y_request(f) ==
    LET factor == effective(f)
    IN  IF orientation = "v"
        THEN LET nif == RMul(index_factor, factor)
             IN  Request(nif, value_factor, zoom_limit_reached(nif, "y"))
        ELSE LET nvf == RMul(value_factor, factor)
             IN  Request(index_factor, nvf, zoom_limit_reached(nvf, "y"))

\* def zoom_out_y(self, factor=0), up to the limit check
zoom_out_y_request(f) ==
    LET factor == effective(f)
    IN  IF orientation = "v"
        THEN LET nif == RDiv(index_factor, factor)
             IN  Request(nif, value_factor, zoom_limit_reached(nif, "y"))
        ELSE LET nvf == RDiv(value_factor, factor)
             IN  Request(index_factor, nvf, zoom_limit_reached(nvf, "y"))

\* Mutant of the zoom methods' second half: zoom_to_mouse is not consulted
\* and every zoom is grouped with a pan to the mouse position.
zoom_state_always_to_mouse(new, pos) ==
    LET x_map == get_x_mapper(Cur)
        y_map == get_y_mapper(Cur)
        next  == <<map_data(x_map, pos[1], Bounds[1]),
                   map_data(y_map, pos[2], Bounds[2])>>
        prev  == <<map_data(x_map, center_screen[1], Bounds[1]),
                   map_data(y_map, center_screen[2], Bounds[2])>>
    IN  GroupedToolState(prev, next, <<index_factor, value_factor>>, new)

\* The tool state a zoom method builds once the limit checks have passed:
\* a ZoomState, or with zoom_to_mouse a pan to the mouse position grouped
\* with it.
zoom_state(new, pos) ==
    IF zoom_to_mouse
    THEN LET x_map == get_x_mapper(Cur)
             y_map == get_y_mapper(Cur)
             next  == <<map_data(x_map, pos[1], Bounds[1]),
                        map_data(y_map, pos[2], Bounds[2])>>
             prev  == <<map_data(x_map, center_screen[1], Bounds[1]),
                        map_data(y_map, center_screen[2], Bounds[2])>>
         IN  GroupedToolState(prev, next, <<index_factor, value_factor>>, new)
    ELSE ZoomState(<<index_factor, value_factor>>, new)

\* The record of an operation that changed nothing: a refused zoom, an
\* undo or redo with nothing to move to, an unmatched key, a trait change.
\* Only an ignored wheel event is told apart.
Idle(via) ==
    /\ lastOp' = [op |-> "none", via |-> IF via = "wheel" THEN via ELSE "none"]
    /\ pre' = Cur

\* A zoom method as a whole: return when a limit is reached, otherwise
\* apply the state and append it to the history.  pos is self.position at
\* the call and hnd the event's handled flag after it.
Perform(req, op, via, pos, hnd) ==
    IF req.limit
    THEN /\ position' = pos
         /\ handled' = hnd
         /\ Idle(via)
         /\ UNCHANGED <<index_factor, value_factor, index_range, value_range,
                        history, history_index, steps, zoom_to_mouse, axis,
                        orientation, enable_wheel>>
    ELSE /\ steps < MaxSteps
         /\ \E st \in {zoom_state(req.new, pos)} :
              /\ \E v2 \in {StateApply(st, Cur)} :
                   /\ index_factor' = v2.fi
                   /\ value_factor' = v2.fv
                   /\ index_range' = v2.ir
                   /\ value_range' = v2.vr
              /\ \E h2 \in {append_state(history, history_index, st)} :
                   /\ history' = h2.history
                   /\ history_index' = h2.index
         /\ position' = pos
         /\ handled' = hnd
         /\ steps' = steps + 1
         /\ pre' = Cur
         /\ lastOp' = [op |-> op, via |-> via]
         /\ UNCHANGED <<zoom_to_mouse, axis, orientation, enable_wheel>>

zoom_in(f)    == Perform(zoom_in_request(f), "zoom_in", "call", position, FALSE)
zoom_out(f)   == Perform(zoom_out_request(f), "zoom_out", "call", position, FALSE)
zoom_in_x(f)  == Perform(zoom_in_x_request(f), "zoom_in_x", "call", position, FALSE)
zoom_out_x(f) == Perform(zoom_out_x_request(f), "zoom_out_x", "call", position, FALSE)
zoom_in_y(f)  == Perform(zoom_in_y_request(f), "zoom_in_y", "call", position, FALSE)
zoom_out_y(f) == Perform(zoom_out_y_request(f), "zoom_out_y", "call", position, FALSE)

(***************************************************************************)
(* History navigation.                                                     *)
(***************************************************************************)
\* for state in self._history[::-1]: state.revert(self)
RECURSIVE RevertAll(_, _)
RevertAll(hist, v) ==
    IF hist = <<>> THEN v
    ELSE RevertAll(SubSeq(hist, 1, Len(hist) - 1),
                   StateRevert(hist[Len(hist)], v))

\* def _reset_state_pressed(self): the view and the history afterwards
reset_state_pressed(hist, v) == [view |-> RevertAll(hist, v), history |-> <<>>]

\* def _prev_state_pressed(self): idx is the index already decremented
prev_state_pressed(hist, idx, v) == StateRevert(hist[(idx + 1) + 1], v)

\* def _next_state_pressed(self): idx is the index already incremented
next_state_pressed(hist, idx, v) == StateApply(current_state(hist, idx), v)

\* What a history key that took effect leaves behind.
Navigate(op, v2, h2, i2) ==
    /\ index_factor' = v2.fi
    /\ value_factor' = v2.fv
    /\ index_range' = v2.ir
    /\ value_range' = v2.vr
    /\ history' = h2
    /\ history_index' = i2
    /\ handled' = TRUE
    /\ pre' = Cur
    /\ lastOp' = [op |-> op, via |-> "key"]
    /\ UNCHANGED <<position, zoom_to_mouse, axis, orientation, enable_wheel>>

\* A history key with nothing to move to: only the event is marked handled.
NoNavigation ==
    /\ handled' = TRUE
    /\ Idle("key")
    /\ UNCHANGED <<index_factor, value_factor, index_range, value_range,
                   history, history_index, position, zoom_to_mouse, axis,
                   orientation, enable_wheel, steps>>

\* ToolHistoryMixin._history_handle_key: reset_state_key (Esc)
ResetKey ==
    /\ steps < MaxSteps
    /\ steps' = steps + 1
    /\ \E r \in {reset_state_pressed(history, Cur)} :
         Navigate("reset", r.view, r.history, 0)

\* ToolHistoryMixin._history_handle_key: prev_state_key (Ctrl-Z)
PrevKey ==
    IF history_index > 0
    THEN /\ \E v2 \in {prev_state_pressed(history, history_index - 1, Cur)} :
              Navigate("prev", v2, history, history_index - 1)
         /\ UNCHANGED steps
    ELSE NoNavigation

\* ToolHistoryMixin._history_handle_key: next_state_key (Ctrl-Y)
NextKey ==
    IF history_index <= Len(history) - 2
    THEN /\ \E v2 \in {next_state_pressed(history, history_index + 1, Cur)} :
              Navigate("next", v2, history, history_index + 1)
         /\ UNCHANGED steps
    ELSE NoNavigation

(***************************************************************************)
(* BetterZoom: the BaseTool interface.                                     *)
(***************************************************************************)
ZoomKeys == {"+", "-", "shift-Right", "shift-Left", "shift-Up", "shift-Down"}

\* def normal_key_pressed(self, event): the zoom keys
ZoomKey(key) ==
    CASE key = "+" ->
           Perform(zoom_in_request(Zero), "zoom_in", "key", center_screen, TRUE)
      [] key = "-" ->
           Perform(zoom_out_request(Zero), "zoom_out", "key", center_screen, TRUE)
      [] key = "shift-Right" ->
           Perform(zoom_in_x_request(zoom_factor), "zoom_in_x", "key",
                   center_screen, TRUE)
      [] key = "shift-Left" ->
           Perform(zoom_out_x_request(zoom_factor), "zoom_out_x", "key",
                   center_screen, TRUE)
      [] key = "shift-Up" ->
           Perform(zoom_in_y_request(zoom_factor), "zoom_in_y", "key",
                   center_screen, TRUE)
      [] key = "shift-Down" ->
           Perform(zoom_out_y_request(zoom_factor), "zoom_out_y", "key",
                   center_screen, TRUE)

\* def normal_key_pressed(self, event): a key no key spec matches
OtherKey ==
    /\ handled' = FALSE
    /\ Idle("key")
    /\ UNCHANGED <<index_factor, value_factor, index_range, value_range,
                   history, history_index, position, zoom_to_mouse, axis,
                   orientation, enable_wheel, steps>>

\* Mouse-wheel deltas.
WheelDeltas == {-1, 0, 1}

\* Mutant of normal_mouse_wheel: the directions are exchanged.
normal_mouse_wheel_reversed(delta) ==
    IF enable_wheel /\ delta # 0
    THEN IF delta < 0
         THEN Perform(zoom_in_request(Zero), "zoom_in", "wheel", position, TRUE)
         ELSE Perform(zoom_out_request(Zero), "zoom_out", "wheel", position, TRUE)
    ELSE /\ handled' = FALSE
         /\ Idle("wheel")
         /\ UNCHANGED <<index_factor, value_factor, index_range, value_range,
                        history, history_index, position, zoom_to_mouse, axis,
                        orientation, enable_wheel, steps>>

\* def normal_mouse_wheel(self, event)
normal_mouse_wheel(delta) ==
    IF enable_wheel /\ delta # 0
    THEN IF delta > 0
         THEN Perform(zoom_in_request(Zero), "zoom_in", "wheel", position, TRUE)
         ELSE Perform(zoom_out_request(Zero), "zoom_out", "wheel", position, TRUE)
    ELSE /\ handled' = FALSE
         /\ Idle("wheel")
         /\ UNCHANGED <<index_factor, value_factor, index_range, value_range,
                        history, history_index, position, zoom_to_mouse, axis,
                        orientation, enable_wheel, steps>>

\* def normal_mouse_move(self, event)
normal_mouse_move(p) ==
    /\ position # p
    /\ position' = p
    /\ handled' = FALSE
    /\ Idle("none")
    /\ UNCHANGED <<index_factor, value_factor, index_range, value_range,
                   history, history_index, zoom_to_mouse, axis, orientation,
                   enable_wheel, steps>>

\* Assignments to the tool's public traits.
SetAxis(a) ==
    /\ axis # a
    /\ axis' = a
    /\ handled' = FALSE
    /\ Idle("none")
    /\ UNCHANGED <<index_factor, value_factor, index_range, value_range,
                   history, history_index, position, zoom_to_mouse,
                   orientation, enable_wheel, steps>>

SetZoomToMouse(b) ==
    /\ zoom_to_mouse # b
    /\ zoom_to_mouse' = b
    /\ handled' = FALSE
    /\ Idle("none")
    /\ UNCHANGED <<index_factor, value_factor, index_range, value_range,
                   history, history_index, position, axis, orientation,
                   enable_wheel, steps>>

SetEnableWheel(b) ==
    /\ enable_wheel # b
    /\ enable_wheel' = b
    /\ handled' = FALSE
    /\ Idle("none")
    /\ UNCHANGED <<index_factor, value_factor, index_range, value_range,
                   history, history_index, position, axis, orientation,
                   zoom_to_mouse, steps>>

(***************************************************************************)
(* DataRange1D, as DataRange2D uses it.  A setting is 'auto' or a number.  *)
(***************************************************************************)
Auto   == [auto |-> TRUE, val |-> 0]
Num(n) == [auto |-> FALSE, val |-> n]

\* _low_value = Trait((-inf, -inf), ...) and _high_value = Trait((inf, inf), ...)
NegInf == -1000
PosInf == 1000

\* The image data sources and the 1-D data each is built on; two sources may
\* share one 1-D data object.
Sources == {"a", "b"}
XData(s) == "x1"
YData(s) == IF s = "a" THEN "y1" ELSE "y2"

\* get_bounds() of a 1-D data source
DataBounds(d) ==
    CASE d = "x1" -> <<0, 4>>
      [] d = "y1" -> <<1, 5>>
      [] d = "y2" -> <<2, 8>>

Min(S) == CHOOSE m \in S : \A n \in S : m <= n
Max(S) == CHOOSE m \in S : \A n \in S : m >= n

\* The bound an 'auto' setting stands for.
AutoLow(r)  == IF r.sources = {} THEN NegInf
               ELSE Min({DataBounds(d)[1] : d \in r.sources})
AutoHigh(r) == IF r.sources = {} THEN PosInf
               ELSE Max({DataBounds(d)[2] : d \in r.sources})

NewRange1D == [low_setting |-> Auto, high_setting |-> Auto,
               low_value |-> NegInf, high_value |-> PosInf, sources |-> {}]

\* DataRange1D: assignment to low_setting.  fired: the updated event fires.
R1_set_low_setting(r, val) ==
    IF r.low_setting # val
    THEN LET v == IF val.auto THEN AutoLow(r) ELSE val.val
         IN  [range |-> [r EXCEPT !.low_setting = val, !.low_value = v],
              fired |-> r.low_value # v]
    ELSE [range |-> r, fired |-> FALSE]

\* DataRange1D: assignment to high_setting.
R1_set_high_setting(r, val) ==
    IF r.high_setting # val
    THEN LET v == IF val.auto THEN AutoHigh(r) ELSE val.val
         IN  [range |-> [r EXCEPT !.high_setting = val, !.high_value = v],
              fired |-> r.high_value # v]
    ELSE [range |-> r, fired |-> FALSE]

\* DataRange1D.refresh(): nothing unless a setting is 'auto'.
R1_refresh(r) ==
    IF ~(r.low_setting.auto \/ r.high_setting.auto)
    THEN [range |-> r, fired |-> FALSE]
    ELSE LET lo == IF r.low_setting.auto THEN AutoLow(r) ELSE r.low_setting.val
             hi == IF r.high_setting.auto THEN AutoHigh(r) ELSE r.high_setting.val
         IN  [range |-> [r EXCEPT !.low_value = lo, !.high_value = hi],
              fired |-> r.sources # {} /\ (r.low_value # lo \/ r.high_value # hi)]

\* DataRange1D.add(datasource) / remove(datasource): the list changes and
\* the range refreshes.
R1_add(r, d) ==
    IF d \in r.sources THEN [range |-> r, fired |-> FALSE]
    ELSE R1_refresh([r EXCEPT !.sources = @ \cup {d}])

R1_remove(r, d) ==
    IF d \notin r.sources THEN [range |-> r, fired |-> FALSE]
    ELSE R1_refresh([r EXCEPT !.sources = @ \ {d}])

(***************************************************************************)
(* DataRange2D.                                                            *)
(***************************************************************************)
\* def _get_low(self), _get_high(self), _get_low_setting(self),
\* _get_high_setting(self)
get_low(xr, yr)          == <<xr.low_value, yr.low_value>>
get_high(xr, yr)         == <<xr.high_value, yr.high_value>>
get_low_setting(xr, yr)  == <<xr.low_setting, yr.low_setting>>
get_high_setting(xr, yr) == <<xr.high_setting, yr.high_setting>>

\* What a listener reads when an updated event reaches it.
Snapshot(xr, yr) == [low |-> get_low(xr, yr), high |-> get_high(xr, yr)]

\* The state of the two 1-D ranges with the events fired so far.
Pair(xr, yr, log) == [x |-> xr, y |-> yr, log |-> log]

\* One step on the x (y) range whose event, if fired, is read by the listener.
StepX(p, res) ==
    Pair(res.range, p.y,
         IF res.fired THEN Append(p.log, Snapshot(res.range, p.y)) ELSE p.log)
StepY(p, res) ==
    Pair(p.x, res.range,
         IF res.fired THEN Append(p.log, Snapshot(p.x, res.range)) ELSE p.log)

\* def _do_set_low_setting(self, val, fire_event=True): fire_event is not
\* read; each assignment goes to the 1-D range's own low_setting.
do_set_low_setting(p, val, fire_event) ==
    LET p1 == StepX(p, R1_set_low_setting(p.x, val[1]))
    IN  StepY(p1, R1_set_low_setting(p1.y, val[2]))

\* def _do_set_high_setting(self, val, fire_event=True)
do_set_high_setting(p, val, fire_event) ==
    LET p1 == StepX(p, R1_set_high_setting(p.x, val[1]))
    IN  StepY(p1, R1_set_high_setting(p1.y, val[2]))

\* def _refresh_bounds(self)
refresh_bounds(p) ==
    LET p1 == StepX(p, R1_refresh(p.x))
    IN  StepY(p1, R1_refresh(p1.y))

\* def refresh(self): reads the range's own private settings
refresh(p, lo, hi) ==
    IF (~lo[1].auto /\ ~lo[2].auto) /\ (~hi[1].auto /\ ~hi[2].auto)
    THEN p
    ELSE refresh_bounds(p)

\* What an operation did: the 1-D ranges _refresh_bounds called refresh() on,
\* the number of calls of DataRange2D.refresh(), whether it raised, the
\* property ("x" or "y") that now returns the range object passed to it, and
\* the source whose data_changed event it was.
Outcome(called, refreshes, raised, installed) ==
    [called |-> called, refreshes |-> refreshes, raised |-> raised,
     installed |-> installed, source |-> "none"]

Quiet == Outcome({}, 0, FALSE, "none")

\* def refresh(self): the 1-D ranges it goes on to refresh
refresh_calls(lo, hi) ==
    IF (~lo[1].auto /\ ~lo[2].auto) /\ (~hi[1].auto /\ ~hi[2].auto)
    THEN {}
    ELSE {"x", "y"}

\* epsilon = Tuple(CFloat(1.0e-4), CFloat(1.0e-4))
epsilon == <<R(1, 10000), R(1, 10000)>>

\* Settings a caller passes for the low and the high corner.
LowSettings  == {Auto, Num(1), Num(2)} \X {Auto, Num(3)}
HighSettings == {Auto, Num(6), Num(2)} \X {Auto, Num(9)}

RangeNow == [low |-> get_low(xrange, yrange),
             high |-> get_high(xrange, yrange),
             low_setting |-> get_low_setting(xrange, yrange),
             high_setting |-> get_high_setting(xrange, yrange)]

\* An operation on the range leaves p behind.
RangeDone(op, p) ==
    /\ xrange' = p.x
    /\ yrange' = p.y
    /\ seen' = p.log
    /\ rop' = op
    /\ rpre' = RangeNow

Start == Pair(xrange, yrange, <<>>)

\* def set_bounds(self, low, high)
set_bounds(low, high) ==
    /\ RangeDone("set_bounds",
                 do_set_high_setting(do_set_low_setting(Start, low, FALSE),
                                     high, TRUE))
    /\ outcome' = Quiet
    /\ UNCHANGED <<own_low, own_high, sources, subscribed>>

\* range.low = val and range.low_setting = val: _set_low, _set_low_setting
set_low_setting(val) ==
    /\ RangeDone("set_low", do_set_low_setting(Start, val, TRUE))
    /\ outcome' = Quiet
    /\ UNCHANGED <<own_low, own_high, sources, subscribed>>

\* range.high = val and range.high_setting = val: _set_high, _set_high_setting
set_high_setting(val) ==
    /\ RangeDone("set_high", do_set_high_setting(Start, val, TRUE))
    /\ outcome' = Quiet
    /\ UNCHANGED <<own_low, own_high, sources, subscribed>>

\* def reset(self)
reset ==
    /\ own_high' = <<Auto, Auto>>
    /\ own_low' = <<Auto, Auto>>
    /\ RangeDone("reset", refresh_bounds(Start))
    /\ outcome' = Outcome({"x", "y"}, 0, FALSE, "none")
    /\ UNCHANGED <<sources, subscribed>>

\* def refresh(self), called by a client
Refresh ==
    /\ RangeDone("refresh", refresh(Start, own_low, own_high))
    /\ outcome' = Outcome(refresh_calls(own_low, own_high), 1, FALSE, "none")
    /\ UNCHANGED <<own_low, own_high, sources, subscribed>>

\* sources.append(s): _sources_items_changed with event.added = [s]
AddSource(s) ==
    /\ \A i \in 1..Len(sources) : sources[i] # s
    /\ sources' = Append(sources, s)
    /\ LET p0 == refresh(Start, own_low, own_high)
           p1 == StepX(p0, R1_add(p0.x, XData(s)))
       IN  RangeDone("add", StepY(p1, R1_add(p1.y, YData(s))))
    /\ subscribed' = subscribed \cup {s}
    /\ outcome' = Outcome(refresh_calls(own_low, own_high), 1, FALSE, "none")
    /\ UNCHANGED <<own_low, own_high>>

\* _sources_items_changed leaving the removed source subscribed.
RemoveSource_still_subscribed(s) ==
    /\ \E i \in 1..Len(sources) : sources[i] = s
    /\ sources' = SelectSeq(sources, LAMBDA t : t # s)
    /\ LET p0 == refresh(Start, own_low, own_high)
           p1 == StepX(p0, R1_remove(p0.x, XData(s)))
       IN  RangeDone("remove", StepY(p1, R1_remove(p1.y, YData(s))))
    /\ subscribed' = subscribed
    /\ outcome' = Outcome(refresh_calls(own_low, own_high), 1, FALSE, "none")
    /\ UNCHANGED <<own_low, own_high>>

\* sources.remove(s): _sources_items_changed with event.removed = [s]
RemoveSource(s) ==
    /\ \E i \in 1..Len(sources) : sources[i] = s
    /\ sources' = SelectSeq(sources, LAMBDA t : t # s)
    /\ LET p0 == refresh(Start, own_low, own_high)
           p1 == StepX(p0, R1_remove(p0.x, XData(s)))
       IN  RangeDone("remove", StepY(p1, R1_remove(p1.y, YData(s))))
    /\ subscribed' = subscribed \ {s}
    /\ outcome' = Outcome(refresh_calls(own_low, own_high), 1, FALSE, "none")
    /\ UNCHANGED <<own_low, own_high>>

\* for source in old: self._xrange.remove(source._xdata);
\*                     self._yrange.remove(source._ydata)
RECURSIVE RemoveAll(_, _)
RemoveAll(p, srcs) ==
    IF srcs = <<>> THEN p
    ELSE LET p1 == StepX(p, R1_remove(p.x, XData(Head(srcs))))
             p2 == StepY(p1, R1_remove(p1.y, YData(Head(srcs))))
         IN  RemoveAll(p2, Tail(srcs))

\* for source in new: self._xrange.add(source._xdata);
\*                     self._yrange.add(source._ydata)
RECURSIVE AddAll(_, _)
AddAll(p, srcs) ==
    IF srcs = <<>> THEN p
    ELSE LET p1 == StepX(p, R1_add(p.x, XData(Head(srcs))))
             p2 == StepY(p1, R1_add(p1.y, YData(Head(srcs))))
         IN  AddAll(p2, Tail(srcs))

\* The lists a client assigns to sources.
SourceLists == {<<>>, <<"a">>, <<"b">>, <<"a", "b">>, <<"b", "a">>}

\* range.sources = new: _sources_changed(old, new)
ReplaceSources(new) ==
    /\ sources' = new
    /\ LET p0 == refresh(Start, own_low, own_high)
       IN  RangeDone("replace", AddAll(RemoveAll(p0, sources), new))
    /\ subscribed' = (subscribed \ {sources[i] : i \in 1..Len(sources)})
                          \cup {new[i] : i \in 1..Len(new)}
    /\ outcome' = Outcome(refresh_calls(own_low, own_high), 1, FALSE, "none")
    /\ UNCHANGED <<own_low, own_high>>

\* The source s fires data_changed: the handlers subscribed to it run.
DataChanged(s) ==
    /\ IF s \in subscribed
       THEN /\ RangeDone("data_changed", refresh(Start, own_low, own_high))
            /\ outcome' = [Outcome(refresh_calls(own_low, own_high), 1, FALSE,
                                   "none") EXCEPT !.source = s]
       ELSE /\ RangeDone("data_changed", Start)
            /\ outcome' = [Quiet EXCEPT !.source = s]
    /\ UNCHANGED <<own_low, own_high, sources, subscribed>>

\* def _set_1d_range(self, dataname, oldrange, newrange): the loop body
\* reads the name datanamem, which nothing defines, so the first source
\* raises NameError; with no source the loop body never runs.
set_1d_range(srcs, oldrange, newrange) ==
    IF Len(srcs) > 0
    THEN [raised |-> TRUE, old |-> oldrange, new |-> newrange]
    ELSE [raised |-> FALSE, old |-> oldrange, new |-> newrange]

\* range.x_range = DataRange1D(): _set_x_range
set_x_range ==
    /\ \E r \in {set_1d_range(sources, xrange, NewRange1D)} :
         IF r.raised
         THEN /\ RangeDone("set_x_range", Start)
              /\ outcome' = Outcome({}, 0, TRUE, "none")
         ELSE /\ RangeDone("set_x_range", Pair(r.new, yrange, <<>>))
              /\ outcome' = Outcome({}, 0, FALSE, "x")
    /\ UNCHANGED <<own_low, own_high, sources, subscribed>>

\* range.y_range = DataRange1D(): _set_y_range
set_y_range ==
    /\ \E r \in {set_1d_range(sources, yrange, NewRange1D)} :
         IF r.raised
         THEN /\ RangeDone("set_y_range", Start)
              /\ outcome' = Outcome({}, 0, TRUE, "none")
         ELSE /\ RangeDone("set_y_range", Pair(xrange, r.new, <<>>))
              /\ outcome' = Outcome({}, 0, FALSE, "y")
    /\ UNCHANGED <<own_low, own_high, sources, subscribed>>

RangeInit ==
    /\ xrange = NewRange1D
    /\ yrange = NewRange1D
    /\ own_low = <<Auto, Auto>>
    /\ own_high = <<Auto, Auto>>
    /\ sources = <<>>
    /\ seen = <<>>
    /\ rop = "none"
    /\ rpre = RangeNow
    /\ subscribed = {}
    /\ outcome = Quiet

(***************************************************************************)
(* DataRange2D.mask_data and clip_data.                                    *)
(***************************************************************************)
\* The longest array of points passed.
MaxPoints == 2

\* Points inside, outside and on the edges of the ranges a caller sets.
Points == {<<1, 3>>, <<6, 9>>, <<7, 2>>, <<2, 10>>}

\* The (N, 2) arrays of points passed to mask_data and clip_data.
Datas == UNION {[1..n -> Points] : n \in 0..MaxPoints}

\* mask_data with the high edge of the rectangle left out.
mask_data_open_high(d, low, high) ==
    [i \in 1..Len(d) |->
        LET x_mask == (d[i][1] >= low[1]) /\ (d[i][1] < high[1])
            y_mask == (d[i][2] >= low[2]) /\ (d[i][2] < high[2])
        IN  x_mask /\ y_mask]

\* (x_points >= self.low[0]) & (x_points <= self.high[0]), the same for y,
\* and the two masks and-ed: one entry per point.
mask_data(d, low, high) ==
    [i \in 1..Len(d) |->
        LET x_mask == (d[i][1] >= low[1]) /\ (d[i][1] <= high[1])
            y_mask == (d[i][2] >= low[2]) /\ (d[i][2] <= high[2])
        IN  x_mask /\ y_mask]

\* numpy.compress(condition, a, axis=0): the rows of a whose condition holds
RECURSIVE compress(_, _)
compress(condition, a) ==
    IF a = <<>> THEN <<>>
    ELSE IF Head(condition)
         THEN <<Head(a)>> \o compress(Tail(condition), Tail(a))
         ELSE compress(Tail(condition), Tail(a))

\* clip_data returning the points it keeps last first.
clip_data_reversed(d, low, high) ==
    LET kept == compress(mask_data(d, low, high), d)
    IN  [i \in 1..Len(kept) |-> kept[Len(kept) + 1 - i]]

\* def clip_data(self, data)
clip_data(d, low, high) == compress(mask_data(d, low, high), d)

\* range.mask_data(d)
MaskData(d) ==
    /\ data' = d
    /\ result' = mask_data(d, get_low(xrange, yrange), get_high(xrange, yrange))
    /\ dop' = "mask"

\* range.clip_data(d)
ClipData(d) ==
    /\ data' = d
    /\ result' = clip_data(d, get_low(xrange, yrange), get_high(xrange, yrange))
    /\ dop' = "clip"

ClipInit ==
    /\ data = <<>>
    /\ result = <<>>
    /\ dop = "none"

\* The range after set_bounds(low, high) on a new DataRange2D.
RangeSet ==
    \E low \in LowSettings, high \in HighSettings :
        \E p \in {do_set_high_setting(
                     do_set_low_setting(Pair(NewRange1D, NewRange1D, <<>>),
                                        low, FALSE), high, TRUE)} :
            /\ xrange = p.x
            /\ yrange = p.y
            /\ seen = p.log
            /\ rop = "set_bounds"
            /\ rpre = [low |-> get_low(NewRange1D, NewRange1D),
                       high |-> get_high(NewRange1D, NewRange1D),
                       low_setting |-> get_low_setting(NewRange1D, NewRange1D),
                       high_setting |-> get_high_setting(NewRange1D, NewRange1D)]
            /\ own_low = <<Auto, Auto>>
            /\ own_high = <<Auto, Auto>>
            /\ sources = <<>>
            /\ subscribed = {}
            /\ outcome = Quiet

(***************************************************************************)
(* The zoom tool as a state machine.                                       *)
(***************************************************************************)
InitialIndexRange == [low |-> Zero, high |-> <<4, 1>>]
InitialValueRange == [low |-> <<1, 1>>, high |-> <<7, 1>>]

ZoomInit ==
    /\ index_factor = One
    /\ value_factor = One
    /\ index_range = InitialIndexRange
    /\ value_range = InitialValueRange
    /\ history = InitialHistory
    /\ history_index = 0
    /\ position = center_screen
    /\ zoom_to_mouse = FALSE
    /\ axis = "both"
    /\ orientation \in {"h", "v"}
    /\ enable_wheel = TRUE
    /\ handled = FALSE
    /\ steps = 0
    /\ lastOp = NoOp
    /\ pre = Cur

(***************************************************************************)
(* DataLabel.                                                              *)
(***************************************************************************)
\* What an operation on the label did: arrow is "computed" when draw_arrow
\* was called to compute an arrow, "cached" when it was called with the
\* cached arrow, "none" when it was not called.
Did(op, arrow, raised) == [op |-> op, arrow |-> arrow, raised |-> raised]

\* def _do_layout(self, size=None).  map_screen belongs to the component:
\* handed None it may raise or return coordinates.
do_layout_outcomes(l) ==
    IF ~l.has_map_screen
    THEN {[label |-> l, raised |-> FALSE]}
    ELSE {[label |-> [l EXCEPT !.screen_coords = "S", !.cached_arrow = "None",
                               !.layout_needed = FALSE],
           raised |-> FALSE]}
         \cup (IF l.data_point = "None"
               THEN {[label |-> l, raised |-> TRUE]}
               ELSE {})

\* self.do_layout(): _do_layout runs when a layout is needed
do_layout(l) ==
    IF l.layout_needed THEN do_layout_outcomes(l)
    ELSE {[label |-> l, raised |-> FALSE]}

\* def draw_arrow(gc, pt1, pt2, color, ..., arrow=None): with no arrow
\* given it computes one from pt1 and pt2, and pt2 - pt1 raises when pt2 is
\* None.
draw_arrow(pt2, arrow) ==
    IF arrow = "None"
    THEN IF pt2 = "None"
         THEN [arrow |-> "None", kind |-> "computed", raised |-> TRUE]
         ELSE [arrow |-> "arrow", kind |-> "computed", raised |-> FALSE]
    ELSE [arrow |-> arrow, kind |-> "cached", raised |-> FALSE]

\* def overlay(self, component, gc, view_bounds=None, mode="normal")
overlay ==
    \E lay \in do_layout(label) :
        IF lay.raised
        THEN /\ label' = lay.label
             /\ lop' = Did("overlay", "none", TRUE)
        ELSE IF lay.label.arrow_visible
        THEN \E a \in {draw_arrow(lay.label.screen_coords,
                                  lay.label.cached_arrow)} :
                /\ label' = [lay.label EXCEPT !.cached_arrow = a.arrow]
                /\ lop' = Did("overlay", a.kind, a.raised)
        ELSE /\ label' = lay.label
             /\ lop' = Did("overlay", "none", FALSE)

\* label.data_point = pt
SetDataPoint(pt) ==
    /\ label' = [label EXCEPT !.data_point = pt]
    /\ lop' = Did("data_point", "none", FALSE)

\* label.arrow_visible = b
SetArrowVisible(b) ==
    /\ label' = [label EXCEPT !.arrow_visible = b]
    /\ lop' = Did("arrow_visible", "none", FALSE)

\* label.component = c, where c has a map_screen method or has none
SetComponent(b) ==
    /\ label' = [label EXCEPT !.has_map_screen = b]
    /\ lop' = Did("component", "none", FALSE)

\* The label is asked to lay itself out again.
RequestLayout ==
    /\ label' = [label EXCEPT !.layout_needed = TRUE]
    /\ lop' = Did("request_layout", "none", FALSE)

LabelInit ==
    /\ label = [data_point |-> "None", arrow_visible |-> TRUE,
                has_map_screen |-> FALSE, layout_needed |-> TRUE,
                screen_coords |-> "None", cached_arrow |-> "None"]
    /\ lop = Did("none", "none", FALSE)

Init == ZoomInit /\ RangeInit /\ ClipInit /\ LabelInit

\* The tool driven through its public methods and the history keys,
\* zooming about the centre of the view (zoom_to_mouse keeps its default).
Next ==
    \/ \E f \in Factors : zoom_in(f) /\ UNCHANGED <<rangeVars, clipVars, labelVars>>
    \/ \E f \in Factors : zoom_out(f) /\ UNCHANGED <<rangeVars, clipVars, labelVars>>
    \/ \E f \in Factors : zoom_in_x(f) /\ UNCHANGED <<rangeVars, clipVars, labelVars>>
    \/ \E f \in Factors : zoom_out_x(f) /\ UNCHANGED <<rangeVars, clipVars, labelVars>>
    \/ \E f \in Factors : zoom_in_y(f) /\ UNCHANGED <<rangeVars, clipVars, labelVars>>
    \/ \E f \in Factors : zoom_out_y(f) /\ UNCHANGED <<rangeVars, clipVars, labelVars>>
    \/ PrevKey /\ UNCHANGED <<rangeVars, clipVars, labelVars>>
    \/ NextKey /\ UNCHANGED <<rangeVars, clipVars, labelVars>>
    \/ ResetKey /\ UNCHANGED <<rangeVars, clipVars, labelVars>>
    \/ \E p \in Positions : normal_mouse_move(p) /\ UNCHANGED <<rangeVars, clipVars, labelVars>>
    \/ \E a \in {"both", "index", "value"} : SetAxis(a) /\ UNCHANGED <<rangeVars, clipVars, labelVars>>

Spec == Init /\ [][Next]_vars

\* The tool zooming to the mouse position or to the centre, with undo and
\* redo and no reset of the history.
NextMouse ==
    \/ \E f \in MouseFactors : zoom_in(f) /\ UNCHANGED <<rangeVars, clipVars, labelVars>>
    \/ \E f \in MouseFactors : zoom_out(f) /\ UNCHANGED <<rangeVars, clipVars, labelVars>>
    \/ \E f \in MouseFactors : zoom_in_x(f) /\ UNCHANGED <<rangeVars, clipVars, labelVars>>
    \/ \E f \in MouseFactors : zoom_out_x(f) /\ UNCHANGED <<rangeVars, clipVars, labelVars>>
    \/ \E f \in MouseFactors : zoom_in_y(f) /\ UNCHANGED <<rangeVars, clipVars, labelVars>>
    \/ \E f \in MouseFactors : zoom_out_y(f) /\ UNCHANGED <<rangeVars, clipVars, labelVars>>
    \/ PrevKey /\ UNCHANGED <<rangeVars, clipVars, labelVars>>
    \/ NextKey /\ UNCHANGED <<rangeVars, clipVars, labelVars>>
    \/ \E p \in Positions : normal_mouse_move(p) /\ UNCHANGED <<rangeVars, clipVars, labelVars>>
    \/ \E b \in BOOLEAN : SetZoomToMouse(b) /\ UNCHANGED <<rangeVars, clipVars, labelVars>>

SpecMouse == Init /\ [][NextMouse]_vars

\* The tool driven by its zoom keys, the mouse wheel and the mouse.
NextEvents ==
    \/ \E key \in ZoomKeys : ZoomKey(key) /\ UNCHANGED <<rangeVars, clipVars, labelVars>>
    \/ OtherKey /\ UNCHANGED <<rangeVars, clipVars, labelVars>>
    \/ \E delta \in WheelDeltas : normal_mouse_wheel(delta) /\ UNCHANGED <<rangeVars, clipVars, labelVars>>
    \/ \E p \in Positions : normal_mouse_move(p) /\ UNCHANGED <<rangeVars, clipVars, labelVars>>
    \/ \E b \in BOOLEAN : SetZoomToMouse(b) /\ UNCHANGED <<rangeVars, clipVars, labelVars>>
    \/ \E b \in BOOLEAN : SetEnableWheel(b) /\ UNCHANGED <<rangeVars, clipVars, labelVars>>

SpecEvents == Init /\ [][NextEvents]_vars

\* The rectangular range driven through its public interface.
NextRange ==
    \/ \E low \in LowSettings, high \in HighSettings : set_bounds(low, high) /\ UNCHANGED <<zoomVars, clipVars, labelVars>>
    \/ \E low \in LowSettings : set_low_setting(low) /\ UNCHANGED <<zoomVars, clipVars, labelVars>>
    \/ \E high \in HighSettings : set_high_setting(high) /\ UNCHANGED <<zoomVars, clipVars, labelVars>>
    \/ reset /\ UNCHANGED <<zoomVars, clipVars, labelVars>>
    \/ Refresh /\ UNCHANGED <<zoomVars, clipVars, labelVars>>
    \/ \E s \in Sources : AddSource(s) /\ UNCHANGED <<zoomVars, clipVars, labelVars>>
    \/ \E s \in Sources : RemoveSource(s) /\ UNCHANGED <<zoomVars, clipVars, labelVars>>
    \/ \E new \in SourceLists : ReplaceSources(new) /\ UNCHANGED <<zoomVars, clipVars, labelVars>>
    \/ \E s \in Sources : DataChanged(s) /\ UNCHANGED <<zoomVars, clipVars, labelVars>>
    \/ set_x_range /\ UNCHANGED <<zoomVars, clipVars, labelVars>>
    \/ set_y_range /\ UNCHANGED <<zoomVars, clipVars, labelVars>>

SpecRange == Init /\ [][NextRange]_vars

\* A data label whose traits change between two overlays.
NextLabel ==
    \/ overlay /\ UNCHANGED <<zoomVars, rangeVars, clipVars>>
    \/ \E pt \in {"None", "P"} : SetDataPoint(pt) /\ UNCHANGED <<zoomVars, rangeVars, clipVars>>
    \/ \E b \in BOOLEAN : SetArrowVisible(b) /\ UNCHANGED <<zoomVars, rangeVars, clipVars>>
    \/ \E b \in BOOLEAN : SetComponent(b) /\ UNCHANGED <<zoomVars, rangeVars, clipVars>>
    \/ RequestLayout /\ UNCHANGED <<zoomVars, rangeVars, clipVars>>

SpecLabel == Init /\ [][NextLabel]_vars

\* mask_data and clip_data called on a range whose bounds a caller has set.
InitClip == ZoomInit /\ RangeSet /\ ClipInit /\ LabelInit

NextClip ==
    \/ \E d \in Datas : MaskData(d) /\ UNCHANGED <<zoomVars, rangeVars, labelVars>>
    \/ \E d \in Datas : ClipData(d) /\ UNCHANGED <<zoomVars, rangeVars, labelVars>>

SpecClip == InitClip /\ [][NextClip]_vars

(***************************************************************************)
(* Claims about the zoom tool.                                             *)
(***************************************************************************)
ZoomOps == {"zoom_in", "zoom_out", "zoom_in_x", "zoom_out_x", "zoom_in_y",
            "zoom_out_y"}

Width(rng) == RSub(rng.high, rng.low)
Mid(rng)   == RDiv(RAdd(rng.low, rng.high), Two)

\* The factor and the range of the mapper on the screen x / y axis.
XFactor(v) == IF orientation = "h" THEN v.fi ELSE v.fv
YFactor(v) == IF orientation = "h" THEN v.fv ELSE v.fi
XRange(v)  == IF orientation = "h" THEN v.ir ELSE v.vr
YRange(v)  == IF orientation = "h" THEN v.vr ELSE v.ir

\* C1: with the limits and the orientation fixed and 1.0 inside both
\* limits, after any sequence of zoom calls the factor of the mapper on the
\* screen x axis lies in [x_min_zoom_factor, x_max_zoom_factor] and the
\* factor of the mapper on the screen y axis in [y_min_zoom_factor,
\* y_max_zoom_factor].
C1_FactorsWithinLimits ==
    /\ RLe(x_min_zoom_factor, XFactor(Cur))
    /\ RLe(XFactor(Cur), x_max_zoom_factor)
    /\ RLe(y_min_zoom_factor, YFactor(Cur))
    /\ RLe(YFactor(Cur), y_max_zoom_factor)

\* C1 witness: two zooms have brought the x factor onto its upper limit, so
\* that the next zoom in is refused.
C1_AtLimit ==
    /\ lastOp.op \in {"zoom_in", "zoom_in_x"}
    /\ XFactor(Cur) = x_max_zoom_factor
    /\ zoom_limit_reached(RMul(XFactor(Cur), zoom_factor), "x")
\* C2: if the last operation was a zoom that passed the limit check, a
\* prev-state key press (Ctrl-Z) returns both factors and both mapper ranges
\* to the values they had immediately before that zoom.
C2_UndoRestoresZoom ==
    [][(lastOp.op \in ZoomOps /\ PrevKey) => Cur' = pre]_vars

\* C3: after a reset of the history, from any reachable state, both factors
\* are 1.0 and both mapper ranges are the ranges before the first zoom.
C3_ResetRestoresOriginal ==
    lastOp.op = "reset" =>
        Cur = View(One, One, InitialIndexRange, InitialValueRange)

\* C4: after any sequence of zooms and prev-state / next-state navigation,
\* _index_factor is (width of the index range before the first zoom) /
\* (its current width), and _value_factor the same ratio of the value range.
C4_FactorIsWidthRatio ==
    /\ RMul(index_factor, Width(index_range)) = Width(InitialIndexRange)
    /\ RMul(value_factor, Width(value_range)) = Width(InitialValueRange)

\* C4 witness: a zoom has been undone and redone, and the view is zoomed.
C4_Redone ==
    /\ lastOp.op = "next"
    /\ index_factor # One
    /\ Width(index_range) # Width(InitialIndexRange)
\* The factor the last zoom in applied, read off the factor it changed.
LastFactorBoth == IF axis = "value" THEN RDiv(value_factor, pre.fv)
                  ELSE RDiv(index_factor, pre.fi)
LastFactorX == RDiv(XFactor(Cur), XFactor(pre))
LastFactorY == RDiv(YFactor(Cur), YFactor(pre))

\* C5: zoom out is the inverse of zoom in: a zoom_out(f) issued immediately
\* after a zoom_in(f) that passed the limit check is itself accepted and
\* restores both factors and (zooming about the centre) both mapper ranges
\* to their values before the zoom_in; likewise zoom_out_x after zoom_in_x
\* and zoom_out_y after zoom_in_y.
C5_ZoomOutInvertsZoomIn ==
    [][\A f \in Factors :
         /\ (lastOp.op = "zoom_in" /\ LastFactorBoth = effective(f)
               /\ zoom_out(f))
            => (lastOp'.op = "zoom_out" /\ Cur' = pre)
         /\ (lastOp.op = "zoom_in_x" /\ LastFactorX = effective(f)
               /\ zoom_out_x(f))
            => (lastOp'.op = "zoom_out_x" /\ Cur' = pre)
         /\ (lastOp.op = "zoom_in_y" /\ LastFactorY = effective(f)
               /\ zoom_out_y(f))
            => (lastOp'.op = "zoom_out_y" /\ Cur' = pre)]_vars

\* C5 witness: a zoom out has just undone the zoom in before it.
C5_ZoomedInThenOut ==
    /\ lastOp.op = "zoom_out"
    /\ Len(history) >= 3
    /\ history_index = Len(history) - 1
    /\ history[Len(history)].zprev # history[Len(history)].znext
    /\ history[Len(history)].znext = history[Len(history) - 1].zprev
    /\ history[Len(history)].zprev = history[Len(history) - 1].znext
    /\ index_range = InitialIndexRange

\* C6: zoom_in_x and zoom_out_x change only the factor and the range of the
\* mapper on the screen x axis, and zoom_in_y and zoom_out_y only those of
\* the mapper on the screen y axis, for both values of zoom_to_mouse and any
\* mouse position.
C6_OtherMapperUntouched ==
    /\ lastOp.op \in {"zoom_in_x", "zoom_out_x"} =>
         /\ YFactor(Cur) = YFactor(pre)
         /\ YRange(Cur) = YRange(pre)
    /\ lastOp.op \in {"zoom_in_y", "zoom_out_y"} =>
         /\ XFactor(Cur) = XFactor(pre)
         /\ XRange(Cur) = XRange(pre)

\* C7: with zoom_to_mouse False every zoom keeps the midpoint of each
\* mapper range and divides its width by the factor applied to that mapper,
\* wherever the mouse is.
C7_ZoomAboutCentre ==
    (lastOp.op \in ZoomOps /\ ~zoom_to_mouse) =>
        /\ Mid(index_range) = Mid(pre.ir)
        /\ Mid(value_range) = Mid(pre.vr)
        /\ RMul(Width(index_range), RDiv(index_factor, pre.fi)) = Width(pre.ir)
        /\ RMul(Width(value_range), RDiv(value_factor, pre.fv)) = Width(pre.vr)

\* C7 witness: a zoom about the centre made with the mouse away from it.
C7_ZoomedWithMouseAway ==
    /\ lastOp.op \in ZoomOps
    /\ ~zoom_to_mouse
    /\ position # center_screen
    /\ Width(index_range) # Width(pre.ir)

\* What zoom_in() / zoom_out() with the default factor make of the factors.
WheelFactors(in) ==
    LET nif == IF axis = "value" THEN index_factor
               ELSE IF in THEN RMul(index_factor, zoom_factor)
                    ELSE RDiv(index_factor, zoom_factor)
        nvf == IF axis = "index" THEN value_factor
               ELSE IF in THEN RMul(value_factor, zoom_factor)
                    ELSE RDiv(value_factor, zoom_factor)
    IN  <<nif, nvf>>

WithinLimits(fs) ==
    /\ RLe(x_min_zoom_factor, XFactor(View(fs[1], fs[2], index_range, value_range)))
    /\ RLe(XFactor(View(fs[1], fs[2], index_range, value_range)), x_max_zoom_factor)
    /\ RLe(y_min_zoom_factor, YFactor(View(fs[1], fs[2], index_range, value_range)))
    /\ RLe(YFactor(View(fs[1], fs[2], index_range, value_range)), y_max_zoom_factor)

\* C8: with enable_wheel False a wheel event changes no factor, range or
\* history entry and is not marked handled; with enable_wheel True a
\* positive delta performs zoom_in, a negative delta zoom_out, and a zero
\* delta changes nothing and leaves the event unhandled.
C8_WheelObeysEnableWheel ==
    [][\A delta \in WheelDeltas :
         normal_mouse_wheel(delta) =>
           IF ~enable_wheel \/ delta = 0
           THEN /\ ~handled'
                /\ UNCHANGED <<index_factor, value_factor, index_range,
                               value_range, history, history_index>>
           ELSE /\ handled'
                /\ IF WithinLimits(WheelFactors(delta > 0))
                   THEN /\ <<index_factor', value_factor'>> =
                             WheelFactors(delta > 0)
                        /\ Len(history') = history_index + 2
                        /\ history_index' = history_index + 1
                   ELSE UNCHANGED <<index_factor, value_factor, index_range,
                                    value_range, history, history_index>>]_vars

\* C8 witness: a wheel event has zoomed out and is marked handled.
C8_WheelZoomedOut ==
    /\ lastOp = [op |-> "zoom_out", via |-> "wheel"]
    /\ handled
    /\ enable_wheel
    /\ RLt(index_factor, pre.fi)

\* C18: a prev-state step followed by a next-state step, and a next-state
\* step followed by a prev-state step, leave both factors, both mapper
\* ranges, the history and the history index as they were before the pair.
C18_HistoryRoundTrip ==
    [][/\ (lastOp.op = "prev" /\ NextKey) =>
            /\ Cur' = pre
            /\ history' = history
            /\ history_index' = history_index + 1
       /\ (lastOp.op = "next" /\ PrevKey) =>
            /\ Cur' = pre
            /\ history' = history
            /\ history_index' = history_index - 1]_vars

(***************************************************************************)
(* Claims about the rectangular range.                                     *)
(***************************************************************************)
\* The bounds a listener can read after the last operation.
NewBounds == [low |-> RangeNow.low, high |-> RangeNow.high]
OldBounds == [low |-> rpre.low, high |-> rpre.high]

\* C9: set_bounds(low, high) sets the four bounds at once: when the call
\* changes both the low and the high corner, no notification reaches a
\* listener that reads the new low corner together with the old high corner.
C9_SetBoundsIsSimultaneous ==
    (rop = "set_bounds" /\ NewBounds.low # OldBounds.low
                        /\ NewBounds.high # OldBounds.high)
        => \A i \in 1..Len(seen) :
              ~(seen[i].low = NewBounds.low /\ seen[i].high = OldBounds.high)

\* The bounds computed from the data sources of the two 1-D ranges.
DataLow  == <<AutoLow(xrange), AutoLow(yrange)>>
DataHigh == <<AutoHigh(xrange), AutoHigh(yrange)>>

\* C10: after reset() the range reads low_setting = high_setting =
\* ('auto', 'auto') and its low and high are the bounds of the data.
C10_ResetGoesBackToAuto ==
    rop = "reset" =>
        /\ RangeNow.low_setting = <<Auto, Auto>>
        /\ RangeNow.high_setting = <<Auto, Auto>>
        /\ RangeNow.low = DataLow
        /\ RangeNow.high = DataHigh

\* The four settings as they are now.
CurrentSettings == {xrange.low_setting, yrange.low_setting,
                    xrange.high_setting, yrange.high_setting}

\* C11: refresh() goes on to refresh the 1-D ranges exactly when at least
\* one of the four current settings is 'auto'; with four numeric settings it
\* returns without calling refresh() on either 1-D range.
C11_RefreshOnlyWhenAuto ==
    rop = "refresh" =>
        (outcome.called # {} <=> \E st \in CurrentSettings : st.auto)

\* The 1-D data of the sources in the list.
XDataOf(srcs) == {XData(srcs[i]) : i \in 1..Len(srcs)}
YDataOf(srcs) == {YData(srcs[i]) : i \in 1..Len(srcs)}

\* C12: assigning a new DataRange1D to x_range (y_range) does not raise,
\* whatever the number of sources; afterwards the property returns the new
\* range and that range holds the x (y) data of every source.
C12_RangeAssignmentCompletes ==
    /\ rop = "set_x_range" =>
          /\ ~outcome.raised
          /\ outcome.installed = "x"
          /\ xrange.sources = XDataOf(sources)
    /\ rop = "set_y_range" =>
          /\ ~outcome.raised
          /\ outcome.installed = "y"
          /\ yrange.sources = YDataOf(sources)

\* C13: whatever was added to, removed from or assigned to sources, the x
\* range holds exactly the x data of the sources in the list and the y range
\* exactly their y data, also when two sources share one 1-D data object.
C13_RangesHoldTheSourcesData ==
    /\ xrange.sources = XDataOf(sources)
    /\ yrange.sources = YDataOf(sources)

\* (high - low) >= eps * low, for bounds that may be infinite.
EpsilonApart(low, high, eps) ==
    \/ low = NegInf
    \/ high = PosInf
    \/ (high - low) * eps[2] >= eps[1] * low

\* C14: in each dimension the bounds are at least epsilon * low apart, also
\* after the user has set numeric bounds.
C14_BoundsAreEpsilonApart ==
    /\ EpsilonApart(RangeNow.low[1], RangeNow.high[1], epsilon[1])
    /\ EpsilonApart(RangeNow.low[2], RangeNow.high[2], epsilon[2])

\* The sources in the list.
InSources == {sources[i] : i \in 1..Len(sources)}

Inside(pt) ==
    /\ RangeNow.low[1] <= pt[1] /\ pt[1] <= RangeNow.high[1]
    /\ RangeNow.low[2] <= pt[2] /\ pt[2] <= RangeNow.high[2]

\* C15: mask_data returns one entry per point, in the order of the points,
\* and the entry is True exactly for a point inside the rectangle of the
\* current bounds, both edges included in both dimensions.
C15_MaskMarksPointsInside ==
    dop = "mask" =>
        /\ Len(result) = Len(data)
        /\ \A i \in 1..Len(data) : result[i] = Inside(data[i])

\* A mask with a point on the high corner marked True and a point outside.
C15_MaskedEdgeAndOutside ==
    /\ dop = "mask"
    /\ \E i, j \in 1..Len(data) :
          /\ data[i] = RangeNow.high /\ result[i]
          /\ ~result[j]

\* C16: clip_data returns the points inside the rectangle, in their order
\* and as often as they occur, and nothing else; clipping the result again
\* returns it unchanged.
C16_ClipKeepsPointsInside ==
    dop = "clip" =>
        /\ result = SelectSeq(data, Inside)
        /\ clip_data(result, RangeNow.low, RangeNow.high) = result

\* A clip of two points that kept one and dropped the other.
C16_ClippedOneOfTwo ==
    /\ dop = "clip"
    /\ Len(data) = 2
    /\ Len(result) = 1

(***************************************************************************)
(* Claims about the data label.                                            *)
(***************************************************************************)
\* C17: overlay calls draw_arrow exactly when arrow_visible is True and
\* data_point is not None; with data_point None no arrow is computed or
\* drawn.
C17_ArrowOnlyWithDataPoint ==
    lop.op = "overlay" =>
        (lop.arrow # "none"
            <=> (label.arrow_visible /\ label.data_point # "None"))


====
